---- MODULE Spec2Model ----
(***************************************************************************)
(* Fixed-window rate limiter (lib/rateLimit) and the chat request handler  *)
(* (app/api/chat/route.ts POST) that consults it.                          *)
(*                                                                         *)
(* Numbers are integers: max and windowMs are whole numbers, the clock is  *)
(* a whole number of milliseconds that never runs backwards.               *)
(***************************************************************************)
EXTENDS Integers, Sequences, FiniteSets, TLC

\* ---------------------------------------------------------------- bounds
MaxTime   == 2      \* Date.now() ranges over 0..MaxTime
MaxMax    == 2      \* callers pass max in 1..MaxMax
MaxWindow == 2      \* callers pass windowMs in 1..MaxWindow
NumReqs   == 2      \* POST invocations in one run
NumThreads == 2     \* callers executing rateLimit step by step at once
MaxHdrLen == 3      \* length of a probed x-forwarded-for value
NumSends == 2       \* onSend invocations of the chat page

\* ------------------------------------------------------- program constants
DefaultMax      == 30       \* getEnv('RATE_LIMIT_MAX', '30')
DefaultWindowMs == 60000    \* getEnv('RATE_LIMIT_WINDOW_MS', '60000')
MaxImageLen     == 8000000  \* last.imageBase64.length > 8_000_000

VARIABLES
    now,        \* the value Date.now() returns
    buckets,    \* the module-level Map<string, Bucket>
    lastCall,   \* the latest rateLimit call: its arguments and return value
    hist,       \* observer: per key, the window the latest call fell in
    env,        \* process.env
    reqs,       \* the POST invocations: position, rateLimit result, response
    threads,    \* rateLimit executions taken one statement group at a time
    probe,      \* a header value and the key POST derives from it
    page        \* the chat page: React state and its onSend invocations

aux  == <<threads, probe, page>>
vars == <<now, buckets, lastCall, hist, env, reqs, threads, probe, page>>

\* ------------------------------------------------------------ client keys
Alphabet == {"a", "b", ",", " "}
NoHeader == <<"null">>                  \* headers.get(...) returned null
\* the x-forwarded-for values the modelled requests carry
Headers  == {NoHeader, <<"a">>, <<" ", "a", " ", ",", "a">>, <<",", "a">>}

\* every x-forwarded-for value of up to MaxHdrLen characters, and its absence
AllHeaders == {NoHeader} \cup UNION {[1..n -> Alphabet] : n \in 0..MaxHdrLen}

RECURSIVE SplitFirst(_)
\* s.split(',')[0]
SplitFirst(s) ==
    IF s = <<>> \/ Head(s) = "," THEN <<>>
    ELSE <<Head(s)>> \o SplitFirst(Tail(s))

RECURSIVE TrimStart(_)
TrimStart(s) == IF s # <<>> /\ Head(s) = " " THEN TrimStart(Tail(s)) ELSE s

RECURSIVE TrimEnd(_)
TrimEnd(s) ==
    IF s # <<>> /\ s[Len(s)] = " " THEN TrimEnd(SubSeq(s, 1, Len(s) - 1)) ELSE s

\* faulty variant: only leading blanks are removed
TrimLeft(s) == TrimStart(s)

\* s.trim()
Trim(s) == TrimEnd(TrimStart(s))

Unknown == <<"unknown">>

\* req.headers.get('x-forwarded-for')?.split(',')[0]?.trim() || 'unknown'
ClientIp(h) ==
    IF h = NoHeader THEN Unknown
    ELSE LET t == Trim(SplitFirst(h)) IN IF t = <<>> THEN Unknown ELSE t

\* `chat:${ip}`
ChatKey(ip) == <<"chat:">> \o ip

\* keys of direct callers: those POST derives from the header "a" and from no header
Keys == {ChatKey(ClientIp(<<"a">>)), ChatKey(ClientIp(NoHeader))}

\* ------------------------------------------------------------- rateLimit
\* faulty variant: one bucket shared by every key
MapSetShared(bs, key, b) == [k \in DOMAIN bs \cup {key} |-> b]

\* buckets.set(key, b)
MapSet(bs, key, b) ==
    [k \in DOMAIN bs \cup {key} |-> IF k = key THEN b ELSE bs[k]]

\* faulty variant: the window still counts as live at its resetAt
StartsWindowStrict(bs, key, t) == key \notin DOMAIN bs \/ bs[key].resetAt < t

\* !bucket || bucket.resetAt <= now
StartsWindow(bs, key, t) == key \notin DOMAIN bs \/ bs[key].resetAt <= t

\* faulty variant: the call that opens the window is not charged
FreshUncharged(max, windowMs, t) == [tokens |-> max, resetAt |-> t + windowMs]

\* const fresh: Bucket = { tokens: max - 1, resetAt: now + windowMs }
Fresh(max, windowMs, t) == [tokens |-> max - 1, resetAt |-> t + windowMs]

\* faulty variant: off by one in the exhaustion test
ExhaustedLate(b) == b.tokens < 0

\* bucket.tokens <= 0
Exhausted(b) == b.tokens <= 0

\* faulty variant: sign slip in the decrement
TakeUp(b) == [b EXCEPT !.tokens = @ + 1]

\* bucket.tokens -= 1
Take(b) == [b EXCEPT !.tokens = @ - 1]

\* faulty variant: the decrement precedes the exhaustion test
rateLimitBucketsCharged(bs, key, max, windowMs, t) ==
    IF StartsWindow(bs, key, t) THEN MapSet(bs, key, Fresh(max, windowMs, t))
    ELSE MapSet(bs, key, Take(bs[key]))

\* faulty variant: the decrement is applied to a copy and never stored
rateLimitBucketsUnsaved(bs, key, max, windowMs, t) ==
    IF StartsWindow(bs, key, t) THEN MapSet(bs, key, Fresh(max, windowMs, t))
    ELSE bs

\* faulty variant: every admitted call pushes resetAt out by its own windowMs
rateLimitBucketsSliding(bs, key, max, windowMs, t) ==
    IF StartsWindow(bs, key, t) THEN MapSet(bs, key, Fresh(max, windowMs, t))
    ELSE IF Exhausted(bs[key]) THEN bs
    ELSE MapSet(bs, key, [Take(bs[key]) EXCEPT !.resetAt = t + windowMs])

\* faulty variant: a call sweeps the elapsed records of the other keys
rateLimitBucketsSweeping(bs, key, max, windowMs, t) ==
    LET kept == {k \in DOMAIN bs : k = key \/ bs[k].resetAt > t}
        swept == [k \in kept |-> bs[k]]
    IN  IF StartsWindow(swept, key, t)
        THEN MapSet(swept, key, Fresh(max, windowMs, t))
        ELSE IF Exhausted(swept[key]) THEN swept
        ELSE MapSet(swept, key, Take(swept[key]))

\* the table after rateLimit(key, max, windowMs) at time t
rateLimitBuckets(bs, key, max, windowMs, t) ==
    IF StartsWindow(bs, key, t) THEN MapSet(bs, key, Fresh(max, windowMs, t))
    ELSE IF Exhausted(bs[key]) THEN bs
    ELSE MapSet(bs, key, Take(bs[key]))

\* faulty variant: a rejection reports a resetAt computed from the current call
rateLimitReturnRenewed(bs, key, max, windowMs, t) ==
    IF StartsWindow(bs, key, t)
    THEN [allowed |-> TRUE, remaining |-> Fresh(max, windowMs, t).tokens,
          resetAt |-> Fresh(max, windowMs, t).resetAt]
    ELSE IF Exhausted(bs[key])
    THEN [allowed |-> FALSE, remaining |-> 0, resetAt |-> t + windowMs]
    ELSE [allowed |-> TRUE, remaining |-> Take(bs[key]).tokens,
          resetAt |-> bs[key].resetAt]

\* faulty variant: an admission reports the tokens read before the decrement
rateLimitReturnStale(bs, key, max, windowMs, t) ==
    IF StartsWindow(bs, key, t)
    THEN [allowed |-> TRUE, remaining |-> Fresh(max, windowMs, t).tokens,
          resetAt |-> Fresh(max, windowMs, t).resetAt]
    ELSE IF Exhausted(bs[key])
    THEN [allowed |-> FALSE, remaining |-> 0, resetAt |-> bs[key].resetAt]
    ELSE [allowed |-> TRUE, remaining |-> bs[key].tokens,
          resetAt |-> bs[key].resetAt]

\* the value rateLimit(key, max, windowMs) returns at time t
rateLimitReturn(bs, key, max, windowMs, t) ==
    IF StartsWindow(bs, key, t)
    THEN [allowed |-> TRUE, remaining |-> Fresh(max, windowMs, t).tokens,
          resetAt |-> Fresh(max, windowMs, t).resetAt]
    ELSE IF Exhausted(bs[key])
    THEN [allowed |-> FALSE, remaining |-> 0, resetAt |-> bs[key].resetAt]
    ELSE [allowed |-> TRUE, remaining |-> Take(bs[key]).tokens,
          resetAt |-> bs[key].resetAt]

\* ---------------------------------------------------------------- observer
\* Calls per window are counted up to CallCap, which exceeds every max.
CallCap == MaxMax + 1
Bump(n) == IF n < CallCap THEN n + 1 ELSE n

\* The window of a key is live at t when a call created it and t is strictly
\* before the resetAt that call fixed.
WindowLive(h, key, t) == key \in DOMAIN h /\ t < h[key].resetAt

Noted(h, key, w) == [k \in DOMAIN h \cup {key} |-> IF k = key THEN w ELSE h[k]]

\* hist after a call (key, max, windowMs) at t that returned ret
Observe(h, key, max, windowMs, t, ret) ==
    IF WindowLive(h, key, t)
    THEN Noted(h, key, [h[key] EXCEPT
             !.calls = Bump(@),
             !.admitted = IF ret.allowed THEN Bump(@) ELSE @])
    ELSE Noted(h, key, [max |-> max, resetAt |-> t + windowMs, calls |-> 1,
                        admitted |-> IF ret.allowed THEN 1 ELSE 0])

\* what the table held for the key when a call at t began
Prior(bs, key, t) ==
    IF key \notin DOMAIN bs THEN "none"
    ELSE IF bs[key].resetAt < t THEN "elapsed"
    ELSE IF bs[key].resetAt = t THEN "boundary"
    ELSE "live"

NoCall == [n |-> 0, key |-> <<>>, max |-> 0, windowMs |-> 0, prior |-> "none",
           ret |-> [allowed |-> FALSE, remaining |-> 0, resetAt |-> 0]]

\* one complete, uninterrupted execution of rateLimit(key, max, windowMs)
DoRateLimit(key, max, windowMs) ==
    LET ret == rateLimitReturn(buckets, key, max, windowMs, now) IN
    /\ buckets' = rateLimitBuckets(buckets, key, max, windowMs, now)
    /\ lastCall' = [n |-> IF lastCall.n = 1 THEN 2 ELSE 1,
                    key |-> key, max |-> max, windowMs |-> windowMs,
                    prior |-> Prior(buckets, key, now),
                    ret |-> ret]
    /\ hist' = Observe(hist, key, max, windowMs, now, ret)

\* ----------------------------------------------------------------- getEnv
EnvUnset == [kind |-> "unset"]          \* process.env[key] is undefined
EnvEmpty == [kind |-> "empty"]          \* process.env[key] is ''
EnvNum(n) == [kind |-> "num", n |-> n]  \* process.env[key] is a numeral
EnvText  == [kind |-> "text"]           \* process.env[key] is a non-empty text

\* process.env[key] ?? fallback
Coalesce(v, fallback) == IF v.kind = "unset" THEN fallback ELSE v

\* getEnv(key, fallback): throws when the value is undefined or ''
getEnvThrows(v, fallback) == Coalesce(v, fallback).kind \in {"unset", "empty"}

\* Number(getEnv(key, fallback)), for a value that is a numeral
getEnvNumber(v, fallback) == Coalesce(v, fallback).n

\* --------------------------------------------------------------------- POST
NotLimited == [s |-> "none", resetAt |-> 0]
Idle == [pc |-> "idle", rl |-> NotLimited, status |-> 0, resetAt |-> 0,
         bodyRead |-> FALSE, modelCalled |-> FALSE, exc |-> "none"]

\* return new Response(..., { status })
Respond(q, status) == [q EXCEPT !.pc = "done", !.status = status]

\* faulty variant: the handler goes on whatever rateLimit returned
AfterLimitOpen(q, ret) == [q EXCEPT !.pc = "json"]

\* lines 199-211: the branch on the value rateLimit returned
AfterLimit(q, ret) ==
    IF ~ret.allowed
    THEN [Respond(q, 429) EXCEPT !.resetAt = ret.resetAt]
    ELSE [q EXCEPT !.pc = "json"]

\* observer: what rateLimit returned to the invocation
Limited(ret) ==
    IF ret.allowed THEN [s |-> "allowed", resetAt |-> 0]
    ELSE [s |-> "rejected", resetAt |-> ret.resetAt]

BadJson    == [kind |-> "unparsable"]   \* req.json() rejects
BadSchema  == [kind |-> "invalid"]      \* bodySchema.safeParse fails
GoodBody(n) == [kind |-> "valid", imageLen |-> n]  \* n = 0: no image
Bodies == {BadJson, BadSchema}
          \cup {GoodBody(n) : n \in {0, 1, MaxImageLen, MaxImageLen + 1}}

\* last.imageBase64 && last.imageBase64.length > 8_000_000
ImageTooLarge(body) == body.imageLen > 0 /\ body.imageLen > MaxImageLen

\* lines 211-288, from the resolution of req.json() to the generateContent call
AfterJson(q, body, apiKey) ==
    LET read == [q EXCEPT !.bodyRead = TRUE] IN
    IF body.kind = "unparsable" THEN Respond(read, 500)
    ELSE IF body.kind = "invalid" THEN Respond(read, 400)
    ELSE IF getEnvThrows(apiKey, EnvUnset) THEN Respond(read, 500)
    ELSE IF ImageTooLarge(body) THEN Respond(read, 413)
    ELSE [read EXCEPT !.pc = "model", !.modelCalled = TRUE]

\* faulty variant: the answer is 200 even when the model call threw
AfterModelDeaf(q, threw) == Respond(q, 200)

\* lines 291-301, from the settlement of generateContent to the response
AfterModel(q, threw) == IF threw THEN Respond(q, 500) ELSE Respond(q, 200)

\* ------------------------------------------- rateLimit, statement by statement
\* a thread's view of the table: the bucket buckets.get(key) returned, if any
View(bs, key) == [k \in DOMAIN bs \cap {key} |-> bs[k]]

NoRet == [allowed |-> FALSE, remaining |-> 0, resetAt |-> 0]
ThreadIdle == [pc |-> "idle", key |-> <<>>, at |-> 0, view |-> <<>>, ret |-> NoRet]
NoThreads == [cfg |-> [max |-> 0, windowMs |-> 0],
              th |-> [i \in 1..NumThreads |-> ThreadIdle],
              raced |-> {}]

NoProbe == [hdr |-> NoHeader, key |-> <<>>, done |-> FALSE]

\* ------------------------------------------------ the chat page (page.tsx)
MaxBytes == 6 * 1024 * 1024             \* onSend: maxBytes

NoFile == [kind |-> "none"]             \* file state null / selectedFile undefined
File(allowed, size) == [kind |-> "file", allowed |-> allowed, size |-> size]
\* files by what onSend looks at: type in the allowed list or not, and size
Files == {File(a, s) : a \in BOOLEAN, s \in {1, MaxBytes, MaxBytes + 1}}
Texts == {"", "hi"}                     \* values of the text input

\* an onSend invocation: where it is suspended or how it ended, and whether
\* it has executed setLoading(true) and setLoading(false)
SendIdle == [pc |-> "idle", setTrue |-> FALSE, setFalse |-> FALSE]

\* Home after its first render (lines 13-16)
HomeInit == [messages |-> <<>>, input |-> "", file |-> NoFile, loading |-> FALSE,
             sends |-> [i \in 1..NumSends |-> SendIdle]]

\* setMessages((m) => [...m, msg]), a message taken by its kind: the user's,
\* the reply, the server's error, or one of the page's own three notices
Say(p, role) == [p EXCEPT !.messages = Append(@, role)]

\* lines 37-80: onSend from its call to its first await, or to its return
OnSend(p, i, selectedFile) ==
    LET activeFile == IF selectedFile # NoFile THEN selectedFile ELSE p.file
        returned   == [p EXCEPT !.sends[i].pc = "returned"]
    IN  IF p.input = "" /\ activeFile = NoFile THEN returned
        ELSE IF activeFile # NoFile /\ ~activeFile.allowed THEN Say(returned, "badtype")
        ELSE IF activeFile # NoFile /\ activeFile.size > MaxBytes
             THEN Say(returned, "toobig")
        ELSE IF activeFile # NoFile
             THEN [p EXCEPT !.loading = TRUE,
                            !.sends[i] = [pc |-> "encode", setTrue |-> TRUE,
                                          setFalse |-> FALSE]]
        ELSE [Say(p, "user") EXCEPT !.loading = TRUE, !.input = "", !.file = NoFile,
                                    !.sends[i] = [pc |-> "fetch", setTrue |-> TRUE,
                                                  setFalse |-> FALSE]]

\* lines 64-80 and 250-257: toBase64 settles; onSend goes on to the fetch, or
\* the rejection leaves onSend, which is not yet inside its try
AfterEncode(p, i, ok) ==
    IF ok
    THEN [Say(p, "user") EXCEPT !.input = "", !.file = NoFile, !.sends[i].pc = "fetch"]
    ELSE [p EXCEPT !.sends[i].pc = "threw"]

\* lines 96-111: the answer or the error is shown, then finally runs
Finish(p, i, said) ==
    [Say(p, said) EXCEPT !.loading = FALSE, !.sends[i].pc = "returned",
                            !.sends[i].setFalse = TRUE]

\* lines 80-95 and 104-111: fetch settles
AfterFetch(p, i, ok) ==
    IF ok THEN [p EXCEPT !.sends[i].pc = "json"] ELSE Finish(p, i, "failed")

\* lines 95-111: res.json() settles, with a reply, an error body or a throw
AfterResJson(p, i, outcome) ==
    Finish(p, i, IF outcome = "throw" THEN "failed" ELSE outcome)

\* ------------------------------------------------------------------ actions
EnvNumbers(hi) == {EnvUnset, EnvEmpty} \cup {EnvNum(n) : n \in 1..hi}

\* nothing is executing rateLimit stepwise, no header is probed, the page is untouched
AuxInit ==
    /\ threads = NoThreads
    /\ probe = NoProbe
    /\ page = HomeInit

Init ==
    /\ now = 0
    /\ buckets = <<>>
    /\ lastCall = NoCall
    /\ hist = <<>>
    /\ env = [max |-> EnvUnset, windowMs |-> EnvUnset, apiKey |-> EnvUnset]
    /\ reqs = [r \in 1..NumReqs |-> Idle]
    /\ AuxInit

InitPOST ==
    /\ now = 0
    /\ buckets = <<>>
    /\ lastCall = NoCall
    /\ hist = <<>>
    /\ env \in [max : EnvNumbers(MaxMax), windowMs : EnvNumbers(MaxWindow),
                apiKey : {EnvUnset, EnvText}]
    /\ reqs = [r \in 1..NumReqs |-> Idle]
    /\ AuxInit

\* time passes
Tick ==
    /\ now < MaxTime
    /\ now' = now + 1
    /\ UNCHANGED <<buckets, lastCall, hist, env, reqs, aux>>

\* any caller invokes rateLimit
RateLimitCall ==
    \E key \in Keys, max \in 1..MaxMax, windowMs \in 1..MaxWindow :
        /\ DoRateLimit(key, max, windowMs)
        /\ UNCHANGED <<now, env, reqs, aux>>

\* POST up to its first await: the key, the two settings, rateLimit, the branch
PostStart(r) ==
    /\ reqs[r].pc = "idle"
    /\ r > 1 => reqs[r - 1].pc # "idle"     \* invocations are numbered by arrival
    /\ \E h \in Headers :
        LET key == ChatKey(ClientIp(h)) IN
        IF \/ getEnvThrows(env.max, EnvNum(DefaultMax))
           \/ getEnvThrows(env.windowMs, EnvNum(DefaultWindowMs))
        THEN /\ reqs' = [reqs EXCEPT ![r] = [Respond(@, 500) EXCEPT !.exc = "env"]]
             /\ UNCHANGED <<now, buckets, lastCall, hist, env, aux>>
        ELSE LET max == getEnvNumber(env.max, EnvNum(DefaultMax))
                 windowMs == getEnvNumber(env.windowMs, EnvNum(DefaultWindowMs))
             IN /\ DoRateLimit(key, max, windowMs)
                /\ reqs' = [reqs EXCEPT ![r] =
                       [AfterLimit(@, lastCall'.ret) EXCEPT
                           !.rl = Limited(lastCall'.ret)]]
                /\ UNCHANGED <<now, env, aux>>

\* observer: the exception raised between req.json() and generateContent
JsonExc(body, apiKey) ==
    IF body.kind = "unparsable" THEN "json"
    ELSE IF body.kind = "valid" /\ apiKey.kind \in {"unset", "empty"} THEN "apikey"
    ELSE "none"

\* faulty variant: a request that ends without a model call hands its slot back
PostJsonRefunding(r) ==
    /\ reqs[r].pc = "json"
    /\ \E body \in Bodies :
        /\ reqs' = [reqs EXCEPT ![r] = [AfterJson(@, body, env.apiKey) EXCEPT
                                           !.exc = JsonExc(body, env.apiKey)]]
        /\ buckets' = IF reqs'[r].pc = "done"
                      THEN [buckets EXCEPT ![lastCall.key].tokens = @ + 1]
                      ELSE buckets
    /\ UNCHANGED <<now, lastCall, hist, env, aux>>

\* req.json() settles; POST runs to the generateContent call or to a response
PostJson(r) ==
    /\ reqs[r].pc = "json"
    /\ \E body \in Bodies :
        reqs' = [reqs EXCEPT ![r] = [AfterJson(@, body, env.apiKey) EXCEPT
                                        !.exc = JsonExc(body, env.apiKey)]]
    /\ UNCHANGED <<now, buckets, lastCall, hist, env, aux>>

\* generateContent settles; POST runs to its response
PostModel(r) ==
    /\ reqs[r].pc = "model"
    /\ \E threw \in BOOLEAN :
        reqs' = [reqs EXCEPT ![r] = [AfterModel(@, threw) EXCEPT
                                        !.exc = IF threw THEN "model" ELSE "none"]]
    /\ UNCHANGED <<now, buckets, lastCall, hist, env, aux>>

Next == Tick \/ RateLimitCall

Spec == Init /\ [][Next]_vars

NextPOST ==
    \/ Tick
    \/ \E r \in 1..NumReqs : PostStart(r)
    \/ \E r \in 1..NumReqs : PostJson(r)
    \/ \E r \in 1..NumReqs : PostModel(r)

SpecPOST == InitPOST /\ [][NextPOST]_vars

\* ----------------------------------- rateLimit without mutual exclusion
\* Every caller passes the same max and windowMs, as POST does; the clock is
\* held, so all the executions fall in one window.
InitRace ==
    /\ now = 0
    /\ buckets = <<>>
    /\ lastCall = NoCall
    /\ hist = <<>>
    /\ env = [max |-> EnvUnset, windowMs |-> EnvUnset, apiKey |-> EnvUnset]
    /\ reqs = [r \in 1..NumReqs |-> Idle]
    /\ threads \in {[NoThreads EXCEPT !.cfg = c] :
                       c \in [max : 1..MaxMax, windowMs : 1..MaxWindow]}
    /\ probe = NoProbe
    /\ page = HomeInit

\* the contended key: calls for other keys do not touch its record
RaceKeys == {ChatKey(ClientIp(NoHeader))}

InFlight(i) == threads.th[i].pc \in {"read", "compared"}

\* const now = Date.now(); const bucket = buckets.get(key);
RaceRead(i) ==
    /\ ~InFlight(i)
    /\ \E key \in RaceKeys :
         threads' = [threads EXCEPT
            !.th[i] = [pc |-> "read", key |-> key, at |-> now,
                       view |-> View(buckets, key), ret |-> NoRet],
            !.raced = IF \E j \in 1..NumThreads \ {i} :
                             InFlight(j) /\ threads.th[j].key = key
                      THEN @ \cup {key} ELSE @]
    /\ UNCHANGED <<now, buckets, lastCall, hist, env, reqs, probe, page>>

\* the two tests, on what was read: !bucket || resetAt <= now; tokens <= 0
RaceCompare(i) ==
    /\ threads.th[i].pc = "read"
    /\ LET me == threads.th[i] IN
         threads' = [threads EXCEPT
            !.th[i].pc = "compared",
            !.th[i].ret = rateLimitReturn(me.view, me.key, threads.cfg.max,
                                          threads.cfg.windowMs, me.at)]
    /\ UNCHANGED <<now, buckets, lastCall, hist, env, reqs, probe, page>>

\* the store (buckets.set, or tokens = the tokens read - 1) and the return
RaceWrite(i) ==
    /\ threads.th[i].pc = "compared"
    /\ LET me  == threads.th[i]
           new == rateLimitBuckets(me.view, me.key, threads.cfg.max,
                                   threads.cfg.windowMs, me.at)
       IN /\ buckets' = IF new = me.view THEN buckets
                         ELSE MapSet(buckets, me.key, new[me.key])
          /\ lastCall' = [n |-> IF lastCall.n = 1 THEN 2 ELSE 1,
                          key |-> me.key, max |-> threads.cfg.max,
                          windowMs |-> threads.cfg.windowMs,
                          prior |-> Prior(me.view, me.key, me.at),
                          ret |-> me.ret]
          /\ hist' = Observe(hist, me.key, threads.cfg.max,
                             threads.cfg.windowMs, me.at, me.ret)
    /\ threads' = [threads EXCEPT !.th[i].pc = "done"]
    /\ UNCHANGED <<now, env, reqs, probe, page>>

NextRace ==
    \/ \E i \in 1..NumThreads : RaceRead(i)
    \/ \E i \in 1..NumThreads : RaceCompare(i)
    \/ \E i \in 1..NumThreads : RaceWrite(i)

SpecRace == InitRace /\ [][NextRace]_vars

\* ------------------------------------------- the key POST derives, alone
InitKey ==
    /\ now = 0
    /\ buckets = <<>>
    /\ lastCall = NoCall
    /\ hist = <<>>
    /\ env = [max |-> EnvUnset, windowMs |-> EnvUnset, apiKey |-> EnvUnset]
    /\ reqs = [r \in 1..NumReqs |-> Idle]
    /\ threads = NoThreads
    /\ probe \in {[NoProbe EXCEPT !.hdr = h] : h \in AllHeaders}
    /\ page = HomeInit

\* lines 197-200: ip, then the key handed to rateLimit
DeriveKey ==
    /\ ~probe.done
    /\ probe' = [probe EXCEPT !.key = ChatKey(ClientIp(probe.hdr)), !.done = TRUE]
    /\ UNCHANGED <<now, buckets, lastCall, hist, env, reqs, threads, page>>

NextKey == DeriveKey

SpecKey == InitKey /\ [][NextKey]_vars


\* ------------------------------------------------------------ the chat page
InitPage ==
    /\ now = 0
    /\ buckets = <<>>
    /\ lastCall = NoCall
    /\ hist = <<>>
    /\ env = [max |-> EnvUnset, windowMs |-> EnvUnset, apiKey |-> EnvUnset]
    /\ reqs = [r \in 1..NumReqs |-> Idle]
    /\ threads = NoThreads
    /\ probe = NoProbe
    /\ page = HomeInit

PageOnly == UNCHANGED <<now, buckets, lastCall, hist, env, reqs, threads, probe>>

\* onSend invocations are numbered in the order they are called
NextSend(i) ==
    /\ page.sends[i].pc = "idle"
    /\ \A j \in 1..(i - 1) : page.sends[j].pc # "idle"

\* line 229: the text input's onChange
Type ==
    /\ \E v \in Texts : page' = [page EXCEPT !.input = v]
    /\ PageOnly

\* lines 238-240: the button's onClick; the button is disabled while loading
Click(i) ==
    /\ NextSend(i)
    /\ ~page.loading
    /\ page' = OnSend(page, i, NoFile)
    /\ PageOnly

\* lines 230-232: Enter in the text input
Enter(i) ==
    /\ NextSend(i)
    /\ page' = OnSend(page, i, NoFile)
    /\ PageOnly

\* lines 216-222: the file input's onChange with a file chosen
SelectFile(i) ==
    /\ NextSend(i)
    /\ \E f \in Files : page' = OnSend([page EXCEPT !.file = f], i, f)
    /\ PageOnly

\* toBase64's promise settles (reader.onload or reader.onerror)
EncodeSettles(i) ==
    /\ page.sends[i].pc = "encode"
    /\ \E ok \in BOOLEAN : page' = AfterEncode(page, i, ok)
    /\ PageOnly

\* fetch's promise settles
FetchSettles(i) ==
    /\ page.sends[i].pc = "fetch"
    /\ \E ok \in BOOLEAN : page' = AfterFetch(page, i, ok)
    /\ PageOnly

\* res.json()'s promise settles
ResJsonSettles(i) ==
    /\ page.sends[i].pc = "json"
    /\ \E outcome \in {"reply", "error", "throw"} :
           page' = AfterResJson(page, i, outcome)
    /\ PageOnly

NextPage ==
    \/ Type
    \/ \E i \in 1..NumSends :
           \/ Click(i)
           \/ Enter(i)
           \/ SelectFile(i)
           \/ EncodeSettles(i)
           \/ FetchSettles(i)
           \/ ResJsonSettles(i)

SpecPage == InitPage /\ [][NextPage]_vars

\* ------------------------------------------------------------------- claims
Called   == lastCall.n # 0              \* some rateLimit call has completed
CallStep == lastCall'.n # lastCall.n    \* this step is a rateLimit call
LastKey  == lastCall.key
LastWin  == hist[lastCall.key]

ReturnType == [allowed : BOOLEAN, remaining : Int, resetAt : Int]

\* C1: the n-th call that falls in one window of a key is admitted exactly
\* when n <= M, M being the max of the call that opened the window; so the
\* first M calls are admitted and the (M+1)-th and all later ones are not.
C1_AdmitsExactlyMax ==
    Called => (lastCall.ret.allowed <=> LastWin.calls <= LastWin.max)

\* a window opened with max = MaxMax whose (MaxMax+1)-th call was just refused
C1_Witness ==
    /\ Called
    /\ ~lastCall.ret.allowed
    /\ LastWin.max = MaxMax
    /\ LastWin.calls = MaxMax + 1
    /\ LastWin.admitted = MaxMax

\* C2: a call for a key whose record has resetAt <= now (the boundary
\* included) is admitted, reports remaining = max - 1 and resetAt = now +
\* windowMs, and replaces the record by {tokens: max - 1, resetAt: now + windowMs}.
C2_ElapsedWindowRestarts ==
    [][ (/\ CallStep
         /\ lastCall'.key \in DOMAIN buckets
         /\ buckets[lastCall'.key].resetAt <= now)
        => /\ lastCall'.ret = [allowed |-> TRUE,
                               remaining |-> lastCall'.max - 1,
                               resetAt |-> now + lastCall'.windowMs]
           /\ buckets'[lastCall'.key] = [tokens |-> lastCall'.max - 1,
                                         resetAt |-> now + lastCall'.windowMs]
      ]_vars

\* a call made exactly at the old window's resetAt, with max = MaxMax, after
\* which the record holds MaxMax - 1 tokens and a later resetAt
C2_Witness ==
    /\ Called
    /\ lastCall.prior = "boundary"
    /\ lastCall.max = MaxMax
    /\ lastCall.ret.allowed
    /\ lastCall.ret.remaining = MaxMax - 1
    /\ buckets[LastKey].tokens = MaxMax - 1
    /\ buckets[LastKey].resetAt = now + lastCall.windowMs

\* C3: a rateLimit call leaves the record of every key other than its own as
\* it was: present or absent as before, with the same tokens and resetAt.
C3_OtherKeysUntouched ==
    [][ CallStep =>
          /\ DOMAIN buckets' \subseteq DOMAIN buckets \cup {lastCall'.key}
          /\ \A k \in DOMAIN buckets \ {lastCall'.key} :
                 k \in DOMAIN buckets' /\ buckets'[k] = buckets[k]
      ]_vars

\* one key is exhausted and was just refused while the other key still holds
\* a token in a live window
C3_Witness ==
    /\ Called
    /\ ~lastCall.ret.allowed
    /\ \E k \in DOMAIN buckets :
          /\ k # LastKey
          /\ buckets[k].tokens > 0
          /\ buckets[k].resetAt > now

\* C4: every call reports the resetAt fixed by the call that opened the
\* window it falls in, and a refused call reports remaining = 0.
C4_ResetAtFixedPerWindow ==
    Called =>
        /\ lastCall.ret.resetAt = LastWin.resetAt
        /\ ~lastCall.ret.allowed => lastCall.ret.remaining = 0

\* a refusal later than the opening of its window, by a call whose own
\* windowMs would give another resetAt
C4_Witness ==
    /\ Called
    /\ ~lastCall.ret.allowed
    /\ lastCall.prior = "live"
    /\ now + lastCall.windowMs # LastWin.resetAt
    /\ lastCall.ret.remaining = 0

\* C5: a refused call changes nothing in the table, and the refusal is a
\* returned value of the ordinary shape.
C5_RejectionMutatesNothing ==
    [][ (CallStep /\ ~lastCall'.ret.allowed)
        => (buckets' = buckets /\ lastCall'.ret \in ReturnType) ]_vars

\* two refusals in a row for a key whose record still shows 0 tokens
C5_Witness ==
    /\ Called
    /\ ~lastCall.ret.allowed
    /\ LastWin.calls >= LastWin.admitted + 2
    /\ buckets[LastKey].tokens = 0

\* C6: the k-th admitted call of a window opened with max = M reports
\* remaining = M - k, and every call reports the tokens stored for its key
\* when it returns.
C6_RemainingCountsDown ==
    Called =>
        /\ lastCall.ret.remaining = buckets[LastKey].tokens
        /\ lastCall.ret.allowed =>
               lastCall.ret.remaining = LastWin.max - LastWin.admitted

\* the last admission of a window opened with max = MaxMax: the MaxMax-th
\* admitted call, made inside the live window, reporting 0
C6_Witness ==
    /\ Called
    /\ lastCall.ret.allowed
    /\ lastCall.prior = "live"
    /\ LastWin.max = MaxMax
    /\ LastWin.admitted = MaxMax
    /\ lastCall.ret.remaining = 0

\* C7: every stored tokens value and every reported remaining is an integer
\* >= 0, for callers that pass whole numbers max >= 1 and windowMs >= 1.
C7_TokensNeverNegative ==
    /\ \A k \in DOMAIN buckets : buckets[k].tokens \in Nat
    /\ lastCall.ret.remaining \in Nat

\* both keys exhausted, the latest call refused after time has passed
C7_Witness ==
    /\ Called
    /\ ~lastCall.ret.allowed
    /\ now > 0
    /\ DOMAIN buckets = Keys
    /\ \A k \in Keys : buckets[k].tokens = 0

\* C8: a step that is not a call for key k leaves k's record as it is; a call
\* for k that finds no record or resetAt <= now sets tokens to its max - 1; any
\* other call for k keeps resetAt and leaves tokens as it was or one lower.
\* Hence tokens never rises while resetAt stays the same.
C8_TokensStepwise ==
    [][ \A k \in DOMAIN buckets' :
          IF CallStep /\ lastCall'.key = k
          THEN IF k \notin DOMAIN buckets \/ buckets[k].resetAt <= now
               THEN buckets'[k].tokens = lastCall'.max - 1
               ELSE /\ buckets'[k].resetAt = buckets[k].resetAt
                    /\ buckets'[k].tokens \in
                           {buckets[k].tokens, buckets[k].tokens - 1}
                    /\ buckets'[k].tokens <= buckets[k].tokens
          ELSE k \in DOMAIN buckets /\ buckets'[k] = buckets[k]
      ]_vars

\* a window that had elapsed was reopened with max = MaxMax, lifting the
\* stored tokens to MaxMax - 1, while the other key sits exhausted in a live window
C8_Witness ==
    /\ Called
    /\ lastCall.prior = "elapsed"
    /\ lastCall.max = MaxMax
    /\ buckets[LastKey].tokens = MaxMax - 1
    /\ \E k \in DOMAIN buckets :
          k # LastKey /\ buckets[k].tokens = 0 /\ buckets[k].resetAt > now

\* C9: with each rateLimit call atomic, the calls admitted for a key inside
\* one window never outnumber the max of the call that opened the window.
C9_AdmittedAtMostMax ==
    \A k \in DOMAIN hist : hist[k].admitted <= hist[k].max

\* both keys have admitted their full quota and a further call was made in
\* the window of one of them
C9_Witness ==
    /\ DOMAIN hist = Keys
    /\ \A k \in Keys : hist[k].admitted = hist[k].max
    /\ \E k \in Keys : hist[k].max = MaxMax /\ hist[k].calls > hist[k].admitted

\* C10: an invocation that rateLimit refused ends with status 429 carrying the
\* resetAt rateLimit returned, without req.json() or generateContent being
\* called; req.json() and generateContent are called only by invocations that
\* rateLimit admitted before.
C10_RejectedNeverReachesModel ==
    \A r \in 1..NumReqs :
        /\ reqs[r].rl.s = "rejected" =>
               /\ reqs[r].pc = "done"
               /\ reqs[r].status = 429
               /\ reqs[r].resetAt = reqs[r].rl.resetAt
               /\ ~reqs[r].bodyRead
               /\ ~reqs[r].modelCalled
        /\ reqs[r].modelCalled => reqs[r].rl.s = "allowed"
        /\ reqs[r].bodyRead => reqs[r].rl.s = "allowed"

\* one invocation was answered 200 after the model call and a later one was
\* refused with 429
C10_Witness ==
    \E r, s \in 1..NumReqs :
        /\ reqs[r].status = 200 /\ reqs[r].modelCalled
        /\ reqs[s].status = 429 /\ reqs[s].rl.s = "rejected"
        /\ reqs[s].resetAt > now

\* C11: a call that finds a live window (record present, resetAt > now) has
\* the return value and leaves the table that a call with any other max and
\* windowMs would have had in the same state.
C11_ArgsIgnoredInLiveWindow ==
    [][ (/\ CallStep
         /\ lastCall'.key \in DOMAIN buckets
         /\ buckets[lastCall'.key].resetAt > now)
        => \A m \in 1..MaxMax, w \in 1..MaxWindow :
              /\ lastCall'.ret = rateLimitReturn(buckets, lastCall'.key, m, w, now)
              /\ buckets' = rateLimitBuckets(buckets, lastCall'.key, m, w, now)
      ]_vars

\* an admitted call inside a live window whose max and windowMs both differ
\* from what the window was opened with
C11_Witness ==
    /\ Called
    /\ lastCall.prior = "live"
    /\ lastCall.ret.allowed
    /\ lastCall.max # LastWin.max
    /\ now + lastCall.windowMs # LastWin.resetAt
    /\ buckets[LastKey].resetAt = LastWin.resetAt

\* C13: a step that is not a rateLimit call, the passage of time included,
\* leaves the table as it is; no step removes a key from the table; the table
\* holds one record per key used and nothing else.
C13_TableChangesOnlyInCalls ==
    [][ /\ ~CallStep => buckets' = buckets
        /\ DOMAIN buckets \subseteq DOMAIN buckets'
        /\ DOMAIN buckets' \subseteq Keys
        /\ Cardinality(DOMAIN buckets') <= Cardinality(DOMAIN buckets) + 1
      ]_vars

\* a record whose window elapsed some time ago is still in the table, unchanged
\* by the call just made for the other key
C13_Witness ==
    /\ Called
    /\ \E k \in DOMAIN buckets :
          /\ k # LastKey
          /\ buckets[k].resetAt < now
          /\ buckets[k] = [tokens |-> hist[k].max - hist[k].admitted,
                           resetAt |-> hist[k].resetAt]

\* C12: when the read, the tests and the store of rateLimit are separate
\* steps, a key's window admits more calls than its max only if two
\* executions for that key overlapped; executions that do not overlap, as when
\* the three steps are one atomic step, never admit more than max.
C12_OvershootOnlyByOverlap ==
    \A k \in DOMAIN hist :
        hist[k].admitted > hist[k].max => k \in threads.raced

\* two executions for one key both read tokens = 1 and both returned
\* allowed = true, so the window opened with max = MaxMax admitted MaxMax + 1
C12_Witness ==
    \E i, j \in 1..NumThreads :
        /\ i # j
        /\ threads.th[i].pc = "done" /\ threads.th[j].pc = "done"
        /\ threads.th[i].key = threads.th[j].key
        /\ threads.th[i].view = threads.th[j].view
        /\ threads.th[i].key \in DOMAIN threads.th[i].view
        /\ threads.th[i].view[threads.th[i].key].tokens = 1
        /\ threads.th[i].ret.allowed /\ threads.th[j].ret.allowed
        /\ hist[threads.th[i].key].max = MaxMax
        /\ hist[threads.th[i].key].admitted = MaxMax + 1

\* the length of the part of h before its first comma
FirstLen(h) ==
    CHOOSE n \in 0..Len(h) :
        /\ \A i \in 1..n : h[i] # ","
        /\ n = Len(h) \/ h[n + 1] = ","

\* e without its leading and trailing blanks: the stretch between the first
\* and the last character of e that is not a blank
Stripped(e) ==
    LET solid == {i \in 1..Len(e) : e[i] # " "} IN
    IF solid = {} THEN <<>>
    ELSE LET lo == CHOOSE i \in solid : \A j \in solid : i <= j
             hi == CHOOSE i \in solid : \A j \in solid : j <= i
         IN  [k \in 1..(hi - lo + 1) |-> e[lo + k - 1]]

KeyFor(entry) ==
    IF Stripped(entry) = <<>> THEN <<"chat:", "unknown">>
    ELSE <<"chat:">> \o Stripped(entry)

\* C14: the key is "chat:" followed by the first comma-separated entry of the
\* header without its surrounding blanks, and "chat:unknown" when the header
\* is absent or that entry is empty; headers with the same first entry, and
\* all requests without the header, get the same key.
C14_KeyIsTrimmedFirstEntry ==
    probe.done =>
        /\ probe.hdr = NoHeader => probe.key = <<"chat:", "unknown">>
        /\ probe.hdr # NoHeader =>
              /\ probe.key = KeyFor(SubSeq(probe.hdr, 1, FirstLen(probe.hdr)))
              /\ \A h \in AllHeaders \ {NoHeader} :
                    SubSeq(h, 1, FirstLen(h))
                        = SubSeq(probe.hdr, 1, FirstLen(probe.hdr))
                    => ChatKey(ClientIp(h)) = probe.key

\* a header whose first entry ends in a blank and is followed by a comma: the
\* key is that of the bare entry
C14_Witness ==
    /\ probe.done
    /\ probe.hdr # NoHeader
    /\ Len(probe.hdr) >= 3
    /\ FirstLen(probe.hdr) = 2
    /\ probe.hdr[2] = " "
    /\ probe.key = <<"chat:", "a">>

\* C15: the tokens stored for a key are the max of its window less every call
\* admitted in it, whatever became of the admitted requests (400, 413, 500 or
\* 200): no slot comes back.  So the call after max admissions in a window is
\* refused, and its request answered 429, however the admitted ones ended.
C15_SlotNeverReturned ==
    /\ \A k \in DOMAIN buckets :
           buckets[k].tokens = hist[k].max - hist[k].admitted
    /\ Called => (lastCall.ret.allowed <=> LastWin.calls <= LastWin.max)
    /\ \A r \in 1..NumReqs :
           reqs[r].rl.s = "rejected" => reqs[r].status = 429

\* with max = 1 the first request was admitted and answered 413, and the
\* second, in the same window, was answered 429
C15_Witness ==
    /\ NumReqs >= 2
    /\ reqs[1].rl.s = "allowed" /\ reqs[1].status = 413
    /\ reqs[2].rl.s = "rejected" /\ reqs[2].status = 429
    /\ LastWin.max = 1 /\ LastWin.admitted = 1 /\ LastWin.calls = 2
    /\ LastWin.resetAt > now

Statuses == {429, 400, 413, 200, 500}

\* C16: an invocation has a response exactly when it has ended, the status is
\* one of 429, 400, 413, 200, 500, and the response never changes afterwards;
\* an invocation in which an exception was raised (getEnv, req.json(), the
\* model call) has ended with 500; 200 is given only after generateContent was
\* called and nothing threw; an invocation waiting on req.json() or on the
\* model can always go on.
C16_OneResponsePerInvocation ==
    /\ [](\A r \in 1..NumReqs :
            /\ reqs[r].pc = "done" <=> reqs[r].status # 0
            /\ reqs[r].status \in Statuses \cup {0}
            /\ reqs[r].exc # "none" => reqs[r].pc = "done" /\ reqs[r].status = 500
            /\ reqs[r].status = 200 => reqs[r].modelCalled /\ reqs[r].exc = "none"
            /\ reqs[r].pc \in {"json", "model"} =>
                   ENABLED (PostJson(r) \/ PostModel(r)))
    /\ [][\A r \in 1..NumReqs : reqs[r].pc = "done" => reqs'[r] = reqs[r]]_vars

\* one invocation ended with 500 because the model call threw, another
\* because req.json() threw
C16_Witness ==
    \E r, s \in 1..NumReqs :
        /\ reqs[r].exc = "model" /\ reqs[r].status = 500 /\ reqs[r].modelCalled
        /\ reqs[s].exc = "json" /\ reqs[s].status = 500 /\ ~reqs[s].modelCalled

Ended(i)    == page.sends[i].pc \in {"returned", "threw"}
Awaiting(i) == page.sends[i].pc \in {"fetch", "json"}
Pending(i)  == page.sends[i].pc \in {"encode", "fetch", "json"}

\* C17: an onSend invocation that set loading to true and has ended has set
\* loading back to false, however toBase64, fetch and res.json() settled; and
\* loading is true only while some invocation is still to settle.
C17_LoadingAlwaysReset ==
    /\ \A i \in 1..NumSends :
           page.sends[i].setTrue /\ Ended(i) => page.sends[i].setFalse
    /\ page.loading => \E i \in 1..NumSends : Pending(i)

\* C18: loading is true whenever a request issued by onSend still awaits its
\* response, and at most one request is awaited at a time.
C18_LoadingGuardsOneRequest ==
    /\ (\E i \in 1..NumSends : Awaiting(i)) => page.loading
    /\ Cardinality({i \in 1..NumSends : Awaiting(i)}) <= 1

====
